---- MODULE Spec2Model ----
(***************************************************************************)
(* Model of the OddsBot browser front ends: the match-detail loaders of    *)
(* src/unnamed/part_000 (loadMatch / renderMarkets / renderMarketSection)  *)
(* and of the two variants in src/app.js (loadMatchDetails).               *)
(*                                                                         *)
(* Text is modelled as a sequence of one-character strings, so that the    *)
(* composite market key, the regular expression that strips the line       *)
(* suffix, the default Array.prototype.sort order and Number.toFixed are   *)
(* computed character by character.  A JavaScript number is an integer     *)
(* count of thousandths (2104 is 2.104); a line is a count of tenths.      *)
(***************************************************************************)
EXTENDS Integers, Sequences, FiniteSets, TLC

\* ------------------------------------------------------------------ bounds
\* Longest odds feed and fair feed drawn for the rendering specification.
MaxOdds == 2
MaxFair == 1
\* loadMatch / loadMatchDetails calls made in one run of the page.
MaxCalls == 2
\* Longest odds feed drawn for the h2h table of the second app.js variant.
MaxH2h == 3
\* loadMatchDetails calls made in one run of the page when progress is checked.
MaxLiveCalls == 1

\* ------------------------------------------------------------------ text
\* The characters used, in ascending UTF-16 code unit order.
Chars ==
  << " ", "(", ")", "-", ".", "0", "1", "2", "3", "4", "5", "6", "7", "8", "9",
     "A", "B", "D", "H", "L", "M", "O", "T", "W", "_",
     "a", "b", "c", "d", "e", "h", "i", "l", "m", "n", "o", "r", "s", "t", "u",
     "w", "y" >>

CodeOf == [c \in {Chars[i] : i \in 1..Len(Chars)} |-> CHOOSE i \in 1..Len(Chars) : Chars[i] = c]
CharCode(c) == CodeOf[c]

\* String.prototype.toLowerCase / toUpperCase, one character.
LowerChar(c) ==
  CASE c = "A" -> "a" [] c = "B" -> "b" [] c = "D" -> "d" [] c = "H" -> "h"
    [] c = "L" -> "l" [] c = "M" -> "m" [] c = "O" -> "o" [] c = "T" -> "t"
    [] c = "W" -> "w" [] OTHER -> c

UpperChar(c) ==
  CASE c = "a" -> "A" [] c = "b" -> "B" [] c = "d" -> "D" [] c = "h" -> "H"
    [] c = "l" -> "L" [] c = "m" -> "M" [] c = "o" -> "O" [] c = "t" -> "T"
    [] c = "w" -> "W" [] OTHER -> c

ToLowerCase(s) == [i \in 1..Len(s) |-> LowerChar(s[i])]

\* a < b in the order of the default sort(): code unit by code unit, a proper
\* prefix first.
RECURSIVE StrLess(_, _)
StrLess(a, b) ==
  IF b = <<>> THEN FALSE
  ELSE IF a = <<>> THEN TRUE
  ELSE IF CharCode(Head(a)) # CharCode(Head(b))
       THEN CharCode(Head(a)) < CharCode(Head(b))
  ELSE StrLess(Tail(a), Tail(b))

\* The distinct strings of S as the array that sort() leaves.
RECURSIVE SortStrings(_)
SortStrings(S) ==
  IF S = {} THEN <<>>
  ELSE LET m == CHOOSE x \in S : \A y \in S : x = y \/ StrLess(x, y)
       IN  <<m>> \o SortStrings(S \ {m})

Digit(d) == SubSeq(<<"0", "1", "2", "3", "4", "5", "6", "7", "8", "9">>, d + 1, d + 1)

RECURSIVE IntStr(_)
IntStr(n) == IF n < 10 THEN Digit(n) ELSE IntStr(n \div 10) \o Digit(n % 10)

\* ------------------------------------------------------------ JS values
JsNum(n) == [t |-> "number", v |-> n]
JsNull == [t |-> "null", v |-> 0]
JsUndefined == [t |-> "undefined", v |-> 0]

\* Truthiness of a value in a condition (a number is falsy when it is 0).
Truthy(x) == x.t = "number" /\ x.v # 0

\* Number(x): null converts to 0; undefined to NaN.
ToNumber(x) ==
  IF x.t = "null" THEN JsNum(0)
  ELSE IF x.t = "undefined" THEN [t |-> "NaN", v |-> 0]
  ELSE x

\* Number.prototype.toFixed(2) of a count of thousandths.
ToFixed2(x) ==
  IF x.t = "NaN" THEN <<"N", "a", "N">>
  ELSE LET cents == (x.v + 5) \div 10
       IN  IntStr(cents \div 100) \o <<".">> \o Digit((cents \div 10) % 10)
             \o Digit(cents % 10)

\* `${line}` of a line given in tenths: 15 is "1.5", 20 is "2".
LineStr(x) ==
  IF x.t = "null" THEN <<"n", "u", "l", "l">>
  ELSE IF x.t = "undefined" THEN <<"u", "n", "d", "e", "f", "i", "n", "e", "d">>
  ELSE IntStr(x.v \div 10)
         \o (IF x.v % 10 = 0 THEN <<>> ELSE <<".">> \o Digit(x.v % 10))

Placeholder == <<"-">>

\* Objects used as maps: a function from its own keys.
EmptyObj == <<>>
Has(obj, k) == k \in DOMAIN obj
Put(obj, k, v) == [x \in (DOMAIN obj) \cup {k} |-> IF x = k THEN v ELSE obj[x]]
\* obj[k] || {}
GetOrEmpty(obj, k) == IF Has(obj, k) THEN obj[k] ELSE EmptyObj
\* obj[k], undefined when k is not a key
Get(obj, k) == IF Has(obj, k) THEN obj[k] ELSE JsUndefined

\* -------------------------------------------------- part_000: renderMarkets
\* noVigByMarket: market_code -> outcome -> no_vig_odds
RECURSIVE NoVigByMarket(_)
NoVigByMarket(fairData) ==
  IF fairData = <<>> THEN EmptyObj
  ELSE LET acc == NoVigByMarket(SubSeq(fairData, 1, Len(fairData) - 1))
           item == fairData[Len(fairData)]
       IN  Put(acc, item.market_code,
               Put(GetOrEmpty(acc, item.market_code), item.outcome, item.no_vig_odds))

\* The key of a quote: the market code, with the line when it is present.
MarketKey(item) ==
  IF item.line.t # "null" /\ item.line.t # "undefined"
  THEN item.market_code \o <<" ", "(", "l", "i", "n", "e", " ">>
         \o LineStr(item.line) \o <<")">>
  ELSE item.market_code

\* Mutant of OddsByMarket: a cell keeps the first price written to it.
RECURSIVE OddsByMarketFirstWins(_)
OddsByMarketFirstWins(oddsData) ==
  IF oddsData = <<>> THEN EmptyObj
  ELSE LET acc == OddsByMarketFirstWins(SubSeq(oddsData, 1, Len(oddsData) - 1))
           item == oddsData[Len(oddsData)]
           key == MarketKey(item)
           byBm == GetOrEmpty(acc, key)
           byOutcome == GetOrEmpty(byBm, item.bookmaker_name)
       IN  Put(acc, key,
               Put(byBm, item.bookmaker_name,
                   IF Has(byOutcome, item.outcome) THEN byOutcome
                   ELSE Put(byOutcome, item.outcome, item.price)))

\* oddsByMarket: key -> bookmaker -> outcome -> price
RECURSIVE OddsByMarket(_)
OddsByMarket(oddsData) ==
  IF oddsData = <<>> THEN EmptyObj
  ELSE LET acc == OddsByMarket(SubSeq(oddsData, 1, Len(oddsData) - 1))
           item == oddsData[Len(oddsData)]
           key == MarketKey(item)
           byBm == GetOrEmpty(acc, key)
       IN  Put(acc, key,
               Put(byBm, item.bookmaker_name,
                   Put(GetOrEmpty(byBm, item.bookmaker_name), item.outcome, item.price)))

\* ---------------------------------------------- part_000: renderMarketSection
IsSpace(c) == c = " "

RECURSIVE SkipSpaces(_)
SkipSpaces(s) == IF s # <<>> /\ IsSpace(Head(s)) THEN SkipSpaces(Tail(s)) ELSE s

LineOpen == <<"(", "l", "i", "n", "e">>

\* s matches \s*\(line.*\) from its first to its last character.
IsLineSuffix(s) ==
  LET r == SkipSpaces(s)
  IN  /\ Len(r) >= Len(LineOpen) + 1
      /\ SubSeq(r, 1, Len(LineOpen)) = LineOpen
      /\ r[Len(r)] = ")"

\* key.match(/^(.*?)(\s*\(line.*\))?$/)[1]: the shortest prefix whose rest is
\* empty or a line suffix.
BaseMarketCode(key) ==
  LET i == CHOOSE n \in 0..Len(key) :
             /\ n = Len(key) \/ IsLineSuffix(SubSeq(key, n + 1, Len(key)))
             /\ \A k \in 0..(n - 1) : ~IsLineSuffix(SubSeq(key, k + 1, Len(key)))
  IN  SubSeq(key, 1, i)

\* Mutant of Outcomes: the outcomes of the fair data are left out.
OutcomesOddsOnly(key, bookieMap, noVigByMarket) ==
  SortStrings(UNION {DOMAIN bookieMap[bm] : bm \in DOMAIN bookieMap})

\* The outcome columns: the outcomes of the fair data for the base code and of
\* every bookmaker's quotes, sorted.
Outcomes(key, bookieMap, noVigByMarket) ==
  LET base == BaseMarketCode(key)
      fromFair == IF Has(noVigByMarket, base) THEN DOMAIN noVigByMarket[base] ELSE {}
      fromOdds == UNION {DOMAIN bookieMap[bm] : bm \in DOMAIN bookieMap}
  IN  SortStrings(fromFair \cup fromOdds)

\* Mutant of DisplayTitle: the code is compared as it is written.
DisplayTitleExactCase(baseMarketCode) ==
  IF baseMarketCode = <<"m", "a", "t", "c", "h", "_", "o", "u", "t", "c", "o", "m", "e">>
  THEN <<"O", "t", "t", "e", "l", "u", "t", "u", "l", "o", "s">>
  ELSE baseMarketCode

DisplayTitle(baseMarketCode) ==
  IF ToLowerCase(baseMarketCode) = <<"m", "a", "t", "c", "h", "_", "o", "u", "t", "c", "o", "m", "e">>
  THEN <<"O", "t", "t", "e", "l", "u", "t", "u", "l", "o", "s">>
  ELSE baseMarketCode

HeaderLabel(outcome) ==
  LET lower == ToLowerCase(outcome)
  IN  IF lower = <<"h", "o", "m", "e">> THEN <<"H", "o", "m", "e">>
      ELSE IF lower = <<"d", "r", "a", "w">> THEN <<"D", "r", "a", "w">>
      ELSE IF lower = <<"a", "w", "a", "y">> THEN <<"A", "w", "a", "y">>
      ELSE IF outcome = <<>> THEN <<>>
      ELSE <<UpperChar(Head(outcome))>> \o Tail(outcome)

\* Mutant of NoVigCell: the value is tested against undefined, as a bookmaker
\* cell is, instead of for truthiness.
NoVigCellIfDefined(noVigByMarket, baseMarketCode, outcome) ==
  LET nvValue == IF Has(noVigByMarket, baseMarketCode)
                 THEN Get(noVigByMarket[baseMarketCode], outcome)
                 ELSE JsUndefined
  IN  IF nvValue.t # "undefined" THEN ToFixed2(ToNumber(nvValue)) ELSE Placeholder

\* The text of one cell of the No-vig row.
NoVigCell(noVigByMarket, baseMarketCode, outcome) ==
  LET nvValue == IF Has(noVigByMarket, baseMarketCode)
                 THEN Get(noVigByMarket[baseMarketCode], outcome)
                 ELSE JsUndefined
  IN  IF Truthy(nvValue) THEN ToFixed2(ToNumber(nvValue)) ELSE Placeholder

\* The text of one cell of a bookmaker row.
OddsCell(outcomesOfBm, outcome) ==
  LET value == Get(outcomesOfBm, outcome)
  IN  IF value.t # "undefined" THEN ToFixed2(ToNumber(value)) ELSE Placeholder

\* Mutant of BookmakerNames: the names in descending order.
BookmakerNamesDescending(bookieMap) ==
  LET asc == SortStrings(DOMAIN bookieMap)
  IN  [i \in 1..Len(asc) |-> asc[Len(asc) + 1 - i]]

\* Object.keys(bookieMap).sort()
BookmakerNames(bookieMap) == SortStrings(DOMAIN bookieMap)

\* The section appended for one key.  The grid is kept by rows; key records
\* the argument the section was built for.
RenderMarketSection(key, bookieMap, noVigByMarket) ==
  LET baseMarketCode == BaseMarketCode(key)
      outcomes == Outcomes(key, bookieMap, noVigByMarket)
      bookmakerNames == BookmakerNames(bookieMap)
  IN  [ kind |-> "section",
        key |-> key,
        title |-> DisplayTitle(baseMarketCode),
        outcomes |-> outcomes,
        headers |-> [i \in 1..Len(outcomes) |-> HeaderLabel(outcomes[i])],
        noVig |-> [i \in 1..Len(outcomes) |->
                     NoVigCell(noVigByMarket, baseMarketCode, outcomes[i])],
        rows |-> [r \in 1..Len(bookmakerNames) |->
                    [ bookmaker |-> bookmakerNames[r],
                      cells |-> [i \in 1..Len(outcomes) |->
                                   OddsCell(bookieMap[bookmakerNames[r]], outcomes[i])] ]] ]

Notice(text) == [kind |-> "notice", text |-> text]

\* Mutant of MarketKeys: the keys in descending order.
MarketKeysDescending(oddsByMarket) ==
  LET asc == SortStrings(DOMAIN oddsByMarket)
  IN  [i \in 1..Len(asc) |-> asc[Len(asc) + 1 - i]]

\* Object.keys(oddsByMarket) after marketKeys.sort().
MarketKeys(oddsByMarket) == SortStrings(DOMAIN oddsByMarket)

\* The number that toFixed(2) shows, as a value.
RoundedTo2(x) == IF x.t = "number" THEN JsNum(((x.v + 5) \div 10) * 10) ELSE x

\* Mutant of OddsDataAfter: each price is replaced by its rounded form.
OddsDataAfterRounded(oddsData) ==
  [k \in 1..Len(oddsData) |-> [oddsData[k] EXCEPT !.price = RoundedTo2(@)]]

\* The two arrays as renderMarkets leaves them: the forEach callbacks read the
\* fields of each item and assign to noVigByMarket and oddsByMarket only, and
\* sort() is called on marketKeys, outcomes and bookmakerNames only.
OddsDataAfter(oddsData) == [k \in 1..Len(oddsData) |-> oddsData[k]]
FairDataAfter(fairData) == [k \in 1..Len(fairData) |-> fairData[k]]

\* The markets container after renderMarkets(fairData, oddsData) ran on it.
RenderMarkets(container, fairData, oddsData) ==
  LET noVigByMarket == NoVigByMarket(fairData)
      oddsByMarket == OddsByMarket(oddsData)
      marketKeys == MarketKeys(oddsByMarket)
  IN  IF Len(marketKeys) = 0
      THEN <<Notice("Ei saatavilla olevia kertoimia.")>>
      ELSE container \o [i \in 1..Len(marketKeys) |->
                           RenderMarketSection(marketKeys[i], oddsByMarket[marketKeys[i]],
                                               noVigByMarket)]

\* ------------------------------------------------------------- the page
VARIABLES
  variant,        \* which front end runs: "part000", "appV1" or "appV2"
  view,           \* the visible view: "matches" or "match"
  matchHeading,   \* the match named by matchHeading.textContent (0: none yet)
  calls,          \* the loadMatch / loadMatchDetails calls made, in order
  container,      \* marketsContainer (part_000) / oddsContainer (app.js)
  fairContainer,  \* fairContainer (app.js)
  renderLog,      \* history: the renders applied to container since it was last reset
                  \* (part_000: with the two arrays as each call got and left them)
  writers         \* history: for each item of container, the call that wrote it

vars == << variant, view, matchHeading, calls, container,
           fairContainer, renderLog, writers >>

\* The match ids on the cards of the matches list.  The list is taken as loaded:
\* fetchMatches / loadMatches write the list region only, and the page starts
\* from the matches view showing its cards.
Matches == {1, 2}

h2h == <<"h", "2", "h">>
totals == <<"t", "o", "t", "a", "l", "s">>
totalsLine15 == totals \o <<" ", "(", "l", "i", "n", "e", " ", "1", ".", "5", ")">>
home == <<"h", "o", "m", "e">>
away == <<"a", "w", "a", "y">>
draw == <<"d", "r", "a", "w">>
matchOutcome == <<"m", "a", "t", "c", "h", "_", "o", "u", "t", "c", "o", "m", "e">>
matchOutcomeCaps == <<"M", "a", "t", "c", "h", "_", "O", "u", "t", "c", "o", "m", "e">>
bookA == <<"A">>
bookB == <<"B">>

OddsQuote(m, l, b, o, p) ==
  [market_code |-> m, line |-> l, bookmaker_name |-> b, outcome |-> o, price |-> p]
FairQuote(m, o, nv) == [market_code |-> m, outcome |-> o, no_vig_odds |-> nv]

\* A request: in flight, or settled: "ok" with the JSON array of the body, or
\* "failed" (the promise rejected; kind says why: a non-success status, "http",
\* or a body that is not JSON, "nonjson"; the promise chain keeps no trace of
\* which).  The first app.js variant holds the Response objects themselves:
\* "open" is a Response with ok true whose body is not read yet, "http" one
\* with ok false.
InFlight == [st |-> "inflight", data |-> <<>>]
Ok(data) == [st |-> "ok", data |-> data]
Failed(kind) == [st |-> "failed", data |-> <<>>]
FailureKinds == {"http", "nonjson"}

ErrorNotice(text) == [kind |-> "error", text |-> text]

SetCall(c, r) == [calls EXCEPT ![c] = r]
\* A call that ended: the response arrays were locals of its callbacks.
Ended(call, pc) == [call EXCEPT !.pc = pc, !.fair.data = <<>>, !.odds.data = <<>>]
Repeat(x, n) == [i \in 1..n |-> x]

\* -------------------------------------------------------- part_000: loadMatch
\* backBtn click: showMatchesView().
P0Back ==
  /\ variant = "part000"
  /\ view = "match"
  /\ view' = "matches"
  /\ UNCHANGED << variant, matchHeading, calls, container, fairContainer, renderLog,
                  writers >>

\* Both responses of a call are in.
Settled(call) == call.fair.st # "inflight" /\ call.odds.st # "inflight"

\* Mutant of P0LoadMatch: the markets container is not cleared.
P0LoadMatchNoClear(m) ==
  /\ variant = "part000"
  /\ view = "matches"
  /\ Len(calls) < MaxCalls
  /\ matchHeading' = m
  /\ renderLog' = <<>>
  /\ view' = "match"
  /\ calls' = Append(calls, [match |-> m, fair |-> InFlight, odds |-> InFlight,
                             pc |-> "pending",
                             sequential |-> \A c \in 1..Len(calls) : Settled(calls[c])])
  /\ UNCHANGED << variant, fairContainer, container, writers >>

\* A click on the card of match m: loadMatch(match) up to the two fetch calls.
\* sequential is history: whether the responses of every earlier call were in
\* when this call was made.
P0LoadMatch(m) ==
  /\ variant = "part000"
  /\ view = "matches"
  /\ Len(calls) < MaxCalls
  /\ matchHeading' = m
  /\ container' = <<>>
  /\ writers' = <<>>
  /\ renderLog' = <<>>
  /\ view' = "match"
  /\ calls' = Append(calls, [match |-> m, fair |-> InFlight, odds |-> InFlight,
                             pc |-> "pending",
                             sequential |-> \A c \in 1..Len(calls) : Settled(calls[c])])
  /\ UNCHANGED << variant, fairContainer >>

\* Mutant of P0Joined: the odds value alone lets the then callback run.
P0JoinedOddsOnly(call) == call.odds.st = "ok"

\* Promise.all has both values: the then callback may run.
P0Joined(call) == call.fair.st = "ok" /\ call.odds.st = "ok"

\* One of the two requests of call c finishes with resp; the reactions of
\* Promise.all run in the same turn: the then callback (renderMarkets) once
\* both values are there, the catch callback on the first rejection.
P0Arrive(c, which, resp) ==
  /\ variant = "part000"
  /\ c \in 1..Len(calls)
  /\ calls[c][which].st = "inflight"
  /\ LET call == [calls[c] EXCEPT ![which] = resp]
     IN  IF call.pc = "pending" /\ resp.st = "ok" /\ P0Joined(call)
         THEN LET out == RenderMarkets(container, call.fair.data, call.odds.data)
                  entry == [ call |-> c, fair |-> call.fair.data, odds |-> call.odds.data,
                             fairAfter |-> FairDataAfter(call.fair.data),
                             oddsAfter |-> OddsDataAfter(call.odds.data) ]
              IN  /\ calls' = SetCall(c, Ended(call, "rendered"))
                  /\ container' = out
                  /\ writers' = IF call.odds.data = <<>> THEN <<c>>
                                ELSE writers \o Repeat(c, Len(out) - Len(container))
                  /\ renderLog' = Append(renderLog, entry)
         ELSE IF call.pc = "pending" /\ resp.st # "ok"
         THEN /\ calls' = SetCall(c, Ended(call, "failed"))
              /\ container' = <<ErrorNotice("Kertoimien lataaminen epaonnistui.")>>
              /\ writers' = <<c>>
              /\ renderLog' = <<>>
         ELSE /\ calls' = SetCall(c, IF call.pc = "pending" THEN call ELSE Ended(call, call.pc))
              /\ UNCHANGED << container, writers, renderLog >>
  /\ UNCHANGED << variant, view, matchHeading, fairContainer >>

\* ------------------------------------------- app.js: rendering, both variants
\* The distinct values of s in order of first appearance (the key order of an
\* object, the iteration order of a Set).
RECURSIVE DistinctInOrder(_)
DistinctInOrder(s) ==
  IF s = <<>> THEN <<>>
  ELSE LET init == DistinctInOrder(SubSeq(s, 1, Len(s) - 1))
           x == s[Len(s)]
       IN  IF \E k \in 1..Len(init) : init[k] = x THEN init ELSE Append(init, x)

MarketCodesOf(odds) == DistinctInOrder([k \in 1..Len(odds) |-> odds[k].market_code])
RowsOf(odds, marketCode) == SelectSeq(odds, LAMBDA row : row.market_code = marketCode)

\* `${row.line ?? ''}`
LineCell(line) == IF line.t = "null" \/ line.t = "undefined" THEN <<>> ELSE LineStr(line)

\* x.toFixed(2) throws a TypeError when x is null or undefined.
Throws(x) == x.t # "number"
FirstThrow(s, Val(_)) ==
  IF \E k \in 1..Len(s) : Throws(Val(s[k]))
  THEN CHOOSE k \in 1..Len(s) : Throws(Val(s[k])) /\ \A j \in 1..(k - 1) : ~Throws(Val(s[j]))
  ELSE 0

MarketCard(marketCode, rows) == [kind |-> "market", code |-> marketCode, rows |-> rows]
FairCard(item) ==
  [ kind |-> "fair", market_code |-> item.market_code, outcome |-> item.outcome,
    noVig |-> ToFixed2(item.no_vig_odds) ]
FairHeading == [kind |-> "fairHeading"]

\* The fair cards appended before item.no_vig_odds.toFixed throws, if it does.
FairCards(fair) ==
  LET stop == FirstThrow(fair, LAMBDA item : item.no_vig_odds)
      n == IF stop = 0 THEN Len(fair) ELSE stop - 1
  IN  [k \in 1..n |-> FairCard(fair[k])]
FairThrows(fair) == FirstThrow(fair, LAMBDA item : item.no_vig_odds) # 0

\* First variant, lines 113-154: the two regions after the code that follows
\* the awaits ran on (odds, fair).
V1Card(odds, marketCode) ==
  LET rows == RowsOf(odds, marketCode)
  IN  MarketCard(marketCode,
        [k \in 1..Len(rows) |->
           [ outcome |-> rows[k].outcome, bookmaker |-> rows[k].bookmaker_name,
             price |-> ToFixed2(rows[k].price), line |-> LineCell(rows[k].line) ]])

V1Render(odds, fair, fairBefore) ==
  LET codes == MarketCodesOf(odds)
      err == <<ErrorNotice("Virhe kertoimien haussa")>>
  IN  IF FirstThrow(odds, LAMBDA row : row.price) # 0
      THEN [odds |-> err, fair |-> fairBefore, threw |-> TRUE]
      ELSE IF Len(fair) = 0
      THEN [ odds |-> [k \in 1..Len(codes) |-> V1Card(odds, codes[k])],
             fair |-> fairBefore, threw |-> FALSE ]
      ELSE IF FairThrows(fair)
      THEN [odds |-> err, fair |-> <<FairHeading>> \o FairCards(fair), threw |-> TRUE]
      ELSE [ odds |-> [k \in 1..Len(codes) |-> V1Card(odds, codes[k])],
             fair |-> <<FairHeading>> \o FairCards(fair), threw |-> FALSE ]

\* Second variant, lines 393-466: the h2h card.
RECURSIVE H2hNoVig(_)
H2hNoVig(fair) ==
  IF fair = <<>> THEN EmptyObj
  ELSE LET acc == H2hNoVig(SubSeq(fair, 1, Len(fair) - 1))
           item == fair[Len(fair)]
       IN  IF item.market_code = h2h THEN Put(acc, item.outcome, item.no_vig_odds) ELSE acc

RECURSIVE H2hBookmakerMap(_)
H2hBookmakerMap(rows) ==
  IF rows = <<>> THEN EmptyObj
  ELSE LET acc == H2hBookmakerMap(SubSeq(rows, 1, Len(rows) - 1))
           row == rows[Len(rows)]
       IN  Put(acc, row.bookmaker_name,
               Put(GetOrEmpty(acc, row.bookmaker_name), row.outcome, row.price))

PreferredOrder == <<home, draw, away>>
InSeq(s, x) == \E k \in 1..Len(s) : s[k] = x

\* Mutant of H2hOutcomes: the outcomes in ascending string order.
H2hOutcomesSorted(rows) == SortStrings({rows[k].outcome : k \in 1..Len(rows)})

H2hOutcomes(rows) ==
  LET outcomesSet == DistinctInOrder([k \in 1..Len(rows) |-> rows[k].outcome])
  IN  SelectSeq(PreferredOrder, LAMBDA o : InSeq(outcomesSet, o))
        \o SelectSeq(outcomesSet, LAMBDA o : ~InSeq(PreferredOrder, o))

\* typeof val === 'number' ? val.toFixed(2) : (val || '')
H2hNoVigCell(noVig, outc) ==
  LET val == Get(noVig, outc) IN IF val.t = "number" THEN ToFixed2(val) ELSE <<>>

H2hOddsCell(bookmakerOutcomes, noVig, outc) ==
  LET price == Get(bookmakerOutcomes, outc)
      refVal == Get(noVig, outc)
  IN  IF price.t # "number" THEN [text |-> Placeholder, cls |-> ""]
      ELSE [ text |-> ToFixed2(price),
             cls |-> IF refVal.t # "number" THEN ""
                     ELSE IF price.v > refVal.v THEN "odds-better"
                     ELSE IF price.v < refVal.v THEN "odds-worse" ELSE "" ]

V2H2hCard(rows, fair) ==
  LET noVig == H2hNoVig(fair)
      outcomes == H2hOutcomes(rows)
      books == DistinctInOrder([k \in 1..Len(rows) |-> rows[k].bookmaker_name])
      bookmakerMap == H2hBookmakerMap(rows)
  IN  [ kind |-> "h2h", code |-> h2h, outcomes |-> outcomes,
        noVig |-> IF DOMAIN noVig = {} THEN <<>>
                  ELSE <<[k \in 1..Len(outcomes) |-> H2hNoVigCell(noVig, outcomes[k])]>>,
        rows |-> [b \in 1..Len(books) |->
                    [ bookmaker |-> books[b],
                      cells |-> [k \in 1..Len(outcomes) |->
                                   H2hOddsCell(bookmakerMap[books[b]], noVig, outcomes[k])] ]] ]

\* typeof row.price === 'number' ? row.price.toFixed(2) : row.price, in a template
V2PriceCell(price) == IF price.t = "number" THEN ToFixed2(price) ELSE LineStr(price)

V2Card(odds, fair, marketCode) ==
  LET rows == RowsOf(odds, marketCode)
  IN  IF marketCode = h2h THEN V2H2hCard(rows, fair)
      ELSE MarketCard(marketCode,
             [k \in 1..Len(rows) |->
                [ outcome |-> rows[k].outcome, bookmaker |-> rows[k].bookmaker_name,
                  price |-> V2PriceCell(rows[k].price), line |-> LineCell(rows[k].line) ]])

\* Second variant, lines 377-516.
V2Render(odds, fair, fairBefore) ==
  LET codes == MarketCodesOf(odds)
      cards == IF Len(codes) = 0 THEN <<Notice("Ei kertoimia saatavilla.")>>
               ELSE [k \in 1..Len(codes) |-> V2Card(odds, fair, codes[k])]
  IN  IF Len(fair) = 0 THEN [odds |-> cards, fair |-> fairBefore, threw |-> FALSE]
      ELSE IF FairThrows(fair)
      THEN [ odds |-> <<ErrorNotice("Virhe kertoimien haussa")>>,
             fair |-> fairBefore \o <<FairHeading>> \o FairCards(fair), threw |-> TRUE ]
      ELSE [ odds |-> cards, fair |-> fairBefore \o <<FairHeading>> \o FairCards(fair),
             threw |-> FALSE ]

\* ------------------------------------------------- app.js: loadMatchDetails
IsApp == variant = "appV1" \/ variant = "appV2"

\* back-btn click: showView('matches').
AppBack ==
  /\ IsApp
  /\ view = "match"
  /\ view' = "matches"
  /\ UNCHANGED << variant, matchHeading, calls, container, fairContainer, renderLog,
                  writers >>

Loading == [kind |-> "loading"]

\* A click on the card of match m: loadMatchDetails up to its two fetch calls.
AppLoadMatchDetails(m) ==
  /\ IsApp
  /\ view = "matches"
  /\ Len(calls) < MaxCalls
  /\ view' = "match"
  /\ matchHeading' = m
  /\ container' = <<Loading>>
  /\ writers' = <<Len(calls) + 1>>
  /\ fairContainer' = <<>>
  /\ renderLog' = <<>>
  /\ calls' = Append(calls, [match |-> m, fair |-> InFlight, odds |-> InFlight,
                             pc |-> "pending"])
  /\ UNCHANGED variant

\* The rest of loadMatchDetails from the point where odds and fair are known.
AppFinish(c, call, out) ==
  /\ calls' = SetCall(c, Ended(call, IF out.threw THEN "failed" ELSE "rendered"))
  /\ container' = out.odds
  /\ fairContainer' = out.fair
  /\ writers' = Repeat(c, Len(out.odds))
  /\ renderLog' = IF out.threw THEN <<>>
                  ELSE <<[call |-> c, fair |-> call.fair.data, odds |-> call.odds.data]>>

\* Mutant of AppCatch: the failure is swallowed and nothing is written.
AppCatchSilent(c, call) ==
  /\ calls' = SetCall(c, Ended(call, "failed"))
  /\ UNCHANGED << container, fairContainer, writers, renderLog >>

\* The catch block of loadMatchDetails.
AppCatch(c, call) ==
  /\ calls' = SetCall(c, Ended(call, "failed"))
  /\ container' = <<ErrorNotice("Virhe kertoimien haussa")>>
  /\ writers' = <<c>>
  /\ renderLog' = <<>>
  /\ UNCHANGED fairContainer

\* ------------------------------------ app.js, first variant: loadMatchDetails
\* What the function does once odds is known: read the fair body, or render.
V1AfterOdds(c, call) ==
  IF call.fair.st = "open"
  THEN /\ calls' = SetCall(c, [call EXCEPT !.pc = "fairBody"])
       /\ UNCHANGED << container, fairContainer, writers, renderLog >>
  ELSE AppFinish(c, call, V1Render(call.odds.data, call.fair.data, fairContainer))

\* fetch() of one of the two requests resolves with a Response whose ok is
\* isOk; with both Responses in, the function goes on to its next await.
V1Response(c, which, isOk) ==
  /\ variant = "appV1"
  /\ c \in 1..Len(calls)
  /\ calls[c][which].st = "inflight"
  /\ LET call == [calls[c] EXCEPT ![which] = IF isOk THEN [st |-> "open", data |-> <<>>]
                                             ELSE [st |-> "http", data |-> <<>>]]
     IN  IF call.fair.st = "inflight" \/ call.odds.st = "inflight"
         THEN /\ calls' = SetCall(c, call)
              /\ UNCHANGED << container, fairContainer, writers, renderLog >>
         ELSE IF call.odds.st = "open"
         THEN /\ calls' = SetCall(c, [call EXCEPT !.pc = "oddsBody"])
              /\ UNCHANGED << container, fairContainer, writers, renderLog >>
         ELSE V1AfterOdds(c, call)
  /\ UNCHANGED << variant, view, matchHeading >>

\* await oddsRes.json() / await fairRes.json() settles: body is Ok(data), or
\* Failed("nonjson") when the body does not parse.
V1Body(c, body) ==
  /\ variant = "appV1"
  /\ c \in 1..Len(calls)
  /\ calls[c].pc \in {"oddsBody", "fairBody"}
  /\ LET which == IF calls[c].pc = "oddsBody" THEN "odds" ELSE "fair"
         call == [calls[c] EXCEPT ![which] = body]
     IN  IF body.st # "ok" THEN AppCatch(c, call)
         ELSE IF which = "odds" THEN V1AfterOdds(c, call)
         ELSE AppFinish(c, call, V1Render(call.odds.data, call.fair.data, fairContainer))
  /\ UNCHANGED << variant, view, matchHeading >>

\* ----------------------------------- app.js, second variant: loadMatchDetails
\* fetchJson of one of the two requests settles with resp; Promise.all and the
\* rest of the function run in the same turn.
V2Arrive(c, which, resp) ==
  /\ variant = "appV2"
  /\ c \in 1..Len(calls)
  /\ calls[c][which].st = "inflight"
  /\ LET call == [calls[c] EXCEPT ![which] = resp]
     IN  IF call.pc = "pending" /\ resp.st = "ok" /\ P0Joined(call)
         THEN AppFinish(c, call, V2Render(call.odds.data, call.fair.data, fairContainer))
         ELSE IF call.pc = "pending" /\ resp.st # "ok"
         THEN AppCatch(c, call)
         ELSE /\ calls' = SetCall(c, IF call.pc = "pending" THEN call ELSE Ended(call, call.pc))
              /\ UNCHANGED << container, fairContainer, writers, renderLog >>
  /\ UNCHANGED << variant, view, matchHeading >>

\* ------------------------------------------------------------- the backend
\* The feeds the backend holds for match m; a response carries them or an
\* empty array.
OddsOf(m) ==
  IF m = 1
  THEN << OddsQuote(h2h, JsUndefined, bookB, home, JsNum(2104)),
          OddsQuote(h2h, JsUndefined, bookA, away, JsNum(3196)) >>
  ELSE << OddsQuote(totals, JsNum(15), bookA, home, JsNum(1850)) >>
FairOf(m) ==
  IF m = 1 THEN << FairQuote(h2h, home, JsNum(1996)) >>
  ELSE << FairQuote(totals, home, JsNull) >>

Feed(which, m) == IF which = "odds" THEN OddsOf(m) ELSE FairOf(m)
Responses(which, m) == {Ok(<<>>), Ok(Feed(which, m))} \cup {Failed(k) : k \in FailureKinds}
Bodies(which, m) == {Ok(<<>>), Ok(Feed(which, m)), Failed("nonjson")}
Requests == {"fair", "odds"}

Init ==
  /\ variant \in {"part000", "appV1", "appV2"}
  /\ view = "matches"
  /\ matchHeading = 0
  /\ calls = <<>>
  /\ container = <<>>
  /\ fairContainer = <<>>
  /\ renderLog = <<>>
  /\ writers = <<>>

P0Click == \E m \in Matches : P0LoadMatch(m)
P0Response ==
  \E c \in 1..Len(calls), which \in Requests :
    \E resp \in Responses(which, calls[c].match) : P0Arrive(c, which, resp)
AppClick == \E m \in Matches : AppLoadMatchDetails(m)
V1FetchResolves ==
  \E c \in 1..Len(calls), which \in Requests, isOk \in BOOLEAN : V1Response(c, which, isOk)
V1BodyRead ==
  \E c \in 1..Len(calls) :
    \E body \in Bodies(IF calls[c].pc = "oddsBody" THEN "odds" ELSE "fair", calls[c].match) :
      V1Body(c, body)
V2Response ==
  \E c \in 1..Len(calls), which \in Requests :
    \E resp \in Responses(which, calls[c].match) : V2Arrive(c, which, resp)

Next ==
  \/ P0Click
  \/ P0Back
  \/ P0Response
  \/ AppClick
  \/ AppBack
  \/ V1FetchResolves
  \/ V1BodyRead
  \/ V2Response

Spec == Init /\ [][Next]_vars

\* ------------------------------------------------- app.js: progress
\* The page running app.js, with at most MaxLiveCalls selections.  Every
\* request settles: fetch resolves, a body that is being read is read, and
\* fetchJson resolves or rejects.
InitLive == Init /\ IsApp

LiveClick == Len(calls) < MaxLiveCalls /\ AppClick

NextLive ==
  \/ LiveClick
  \/ AppBack
  \/ V1FetchResolves
  \/ V1BodyRead
  \/ V2Response

SpecLive ==
  /\ InitLive
  /\ [][NextLive]_vars
  /\ WF_vars(V1FetchResolves)
  /\ WF_vars(V1BodyRead)
  /\ WF_vars(V2Response)

\* ------------------------------------------- inputs of the rendering check
\* Quotes: three (market_code, line) pairs, one of them a code that itself ends
\* in a line suffix; two bookmakers, each quoting one outcome; two prices.
MarketLines ==
  { <<totals, JsNull>>, <<totals, JsNum(15)>>, <<totalsLine15, JsUndefined>> }
Offers == { <<bookA, home>>, <<bookB, away>> }
Prices == {JsNum(2104), JsNull}
OddsQuotes ==
  { OddsQuote(ml[1], ml[2], of[1], of[2], p) :
      ml \in MarketLines, of \in Offers, p \in Prices }
FairQuotes ==
  { FairQuote(totals, o, nv) : o \in {home, draw}, nv \in {JsNum(1996), JsNull} }

SeqsUpTo(S, n) == UNION { [1..k -> S] : k \in 0..n }

\* After loadMatch(1), with the fair response in: the odds response is next.
InitRender ==
  /\ variant = "part000"
  /\ view = "match"
  /\ matchHeading = 1
  /\ \E f \in SeqsUpTo(FairQuotes, MaxFair) :
       calls = << [ match |-> 1, fair |-> Ok(f), odds |-> InFlight, pc |-> "pending",
                    sequential |-> TRUE ] >>
  /\ container = <<>>
  /\ fairContainer = <<>>
  /\ renderLog = <<>>
  /\ writers = <<>>

OddsArrive == \E o \in SeqsUpTo(OddsQuotes, MaxOdds) : P0Arrive(1, "odds", Ok(o))

NextRender == OddsArrive

SpecRender == InitRender /\ [][NextRender]_vars

\* ---------------------------------------------- inputs of the title check
\* Quotes of the match outcome market, with the code in lower case and with
\* capitals, with and without a line, and of two other codes.
TitleQuotes ==
  { OddsQuote(matchOutcome, JsUndefined, bookA, home, JsNum(2104)),
    OddsQuote(matchOutcome, JsNum(15), bookB, home, JsNum(2104)),
    OddsQuote(matchOutcomeCaps, JsNum(15), bookB, away, JsNum(2104)),
    OddsQuote(totals, JsUndefined, bookA, home, JsNum(2104)),
    OddsQuote(totalsLine15, JsUndefined, bookA, away, JsNum(2104)) }

TitleOddsArrive == \E o \in SeqsUpTo(TitleQuotes, MaxOdds) : P0Arrive(1, "odds", Ok(o))

NextTitle == TitleOddsArrive

SpecTitle == InitRender /\ [][NextTitle]_vars

\* ------------------------------------------ inputs of the h2h table check
\* h2h quotes of one bookmaker for the three preferred outcomes and two others;
\* fair entries for an outcome that is quoted and one that may not be.
tie == <<"t", "i", "e">>
no == <<"n", "o">>
H2hQuotes ==
  { OddsQuote(h2h, JsUndefined, bookA, o, JsNum(2104)) : o \in {home, draw, away, tie, no} }
H2hFairQuotes == { FairQuote(h2h, o, JsNum(1996)) : o \in {home, draw} }

\* After loadMatchDetails(1) of the second variant, with the fair response in.
InitH2h ==
  /\ variant = "appV2"
  /\ view = "match"
  /\ matchHeading = 1
  /\ \E f \in SeqsUpTo(H2hFairQuotes, MaxFair) :
       calls = << [match |-> 1, fair |-> Ok(f), odds |-> InFlight, pc |-> "pending"] >>
  /\ container = <<Loading>>
  /\ fairContainer = <<>>
  /\ renderLog = <<>>
  /\ writers = <<1>>

H2hOddsArrive == \E o \in SeqsUpTo(H2hQuotes, MaxH2h) : V2Arrive(1, "odds", Ok(o))

NextH2h == H2hOddsArrive

SpecH2h == InitH2h /\ [][NextH2h]_vars

\* ================================================================ claims
\* renderMarkets ran exactly once on the cleared markets container.
P0Once == variant = "part000" /\ Len(renderLog) = 1
IsTable(item) == item.kind \in {"section", "market", "h2h"}
Indices(seq) == 1..Len(seq)

\* A line that is null or undefined is no line.
LineOf(q) == IF q.line.t \in {"null", "undefined"} THEN [t |-> "none", v |-> 0] ELSE q.line
PairOf(q) == <<q.market_code, LineOf(q)>>

\* C1: the market sections correspond one-to-one to the distinct
\* (market_code, line) pairs of the odds feed: as many sections as pairs, and
\* two quotes land in the same section exactly when they agree on both.
C1_SectionsMatchPairs ==
  (P0Once /\ renderLog[1].odds # <<>>) =>
    LET odds == renderLog[1].odds
        SectionOf(q) == CHOOSE k \in Indices(container) : container[k].key = MarketKey(q)
    IN  /\ Len(container) = Cardinality({PairOf(odds[i]) : i \in Indices(odds)})
        /\ \A i, j \in Indices(odds) :
             (PairOf(odds[i]) = PairOf(odds[j])) <=> (SectionOf(odds[i]) = SectionOf(odds[j]))

IsNumericText(text) ==
  /\ text # <<>>
  /\ \A k \in Indices(text) :
       text[k] \in {".", "0", "1", "2", "3", "4", "5", "6", "7", "8", "9"}

\* The fair entries for (code, outcome), by position in the feed.
FairEntries(fair, code, outcome) ==
  {k \in Indices(fair) : fair[k].market_code = code /\ fair[k].outcome = outcome}
Last(S) == CHOOSE k \in S : \A j \in S : j <= k

\* C2 as stated: a No-vig cell shows a number if and only if the fair feed has
\* an entry for the section's base market code and the column's outcome, and
\* shows '-' otherwise.
C2_NoVigIffEntry ==
  P0Once =>
    \A s \in Indices(container) : IsTable(container[s]) =>
      \A i \in Indices(container[s].outcomes) :
        LET cell == container[s].noVig[i]
            entries == FairEntries(renderLog[1].fair, BaseMarketCode(container[s].key),
                                   container[s].outcomes[i])
        IN  /\ IsNumericText(cell) <=> entries # {}
            /\ ~IsNumericText(cell) => cell = Placeholder

\* C2 amended: a No-vig cell shows a number if and only if the fair feed has an
\* entry for the section's base market code and the column's outcome and the
\* last such entry carries a non-zero number as no_vig_odds (not null, not 0);
\* the number shown is that value to two decimals, and every other cell shows '-'.
C2_NoVigIffValue ==
  P0Once =>
    \A s \in Indices(container) : IsTable(container[s]) =>
      \A i \in Indices(container[s].outcomes) :
        LET cell == container[s].noVig[i]
            fair == renderLog[1].fair
            entries == FairEntries(fair, BaseMarketCode(container[s].key),
                                   container[s].outcomes[i])
            valued == entries # {} /\ fair[Last(entries)].no_vig_odds.t = "number"
                        /\ fair[Last(entries)].no_vig_odds.v # 0
        IN  /\ IsNumericText(cell) <=> valued
            /\ valued => cell = ToFixed2(fair[Last(entries)].no_vig_odds)
            /\ ~valued => cell = Placeholder

\* C2 witness: a section was rendered whose No-vig row has a '-' under an
\* outcome for which the fair feed has an entry (with null no_vig_odds).
C2_Witness ==
  /\ P0Once
  /\ \E s \in Indices(container) : IsTable(container[s]) /\
       \E i \in Indices(container[s].outcomes) :
         /\ container[s].noVig[i] = Placeholder
         /\ FairEntries(renderLog[1].fair, BaseMarketCode(container[s].key),
                        container[s].outcomes[i]) # {}

\* C3: renderMarkets called twice in a row with the same two feeds leaves the
\* markets container as one call on the cleared container leaves it.
C3_RenderTwiceSameAsOnce ==
  ( /\ variant = "part000"
    /\ Len(renderLog) = 2
    /\ renderLog[1].fair = renderLog[2].fair
    /\ renderLog[1].odds = renderLog[2].odds ) =>
      container = RenderMarkets(<<>>, renderLog[1].fair, renderLog[1].odds)

\* C4: after a render whose odds response was an empty array, the output is
\* exactly one 'no odds' notice: no table, and no fair card in the fair region.
C4_EmptyOddsOnlyNotice ==
  ( /\ renderLog # <<>>
    /\ renderLog[Len(renderLog)].odds = <<>>
    /\ calls[renderLog[Len(renderLog)].call].odds.st = "ok" ) =>
    /\ Len(container) = 1
    /\ container[1].kind = "notice"
    /\ fairContainer = <<>>

\* The quotes of odds for one cell of the section of key.
CellQuotes(odds, key, bookmaker, outcome) ==
  {k \in Indices(odds) : /\ MarketKey(odds[k]) = key
                         /\ odds[k].bookmaker_name = bookmaker
                         /\ odds[k].outcome = outcome}

\* C5: a bookmaker cell for which the odds feed supplies no price (no quote, or
\* only quotes whose price is null or absent) shows '-'.
C5_MissingPriceIsPlaceholder ==
  P0Once =>
    \A s \in Indices(container) : IsTable(container[s]) =>
      \A r \in Indices(container[s].rows), i \in Indices(container[s].outcomes) :
        LET odds == renderLog[1].odds
            quotes == CellQuotes(odds, container[s].key, container[s].rows[r].bookmaker,
                                 container[s].outcomes[i])
        IN  (\A k \in quotes : odds[k].price.t # "number") =>
              container[s].rows[r].cells[i] = Placeholder

\* C6: the columns of a section are the outcomes quoted under its key together
\* with the outcomes of the fair feed for its base market code, each once, in
\* ascending order.
C6_ColumnsAreSortedUnion ==
  P0Once =>
    \A s \in Indices(container) : IsTable(container[s]) =>
      LET cols == container[s].outcomes
          odds == renderLog[1].odds
          fair == renderLog[1].fair
          quoted == {odds[k].outcome : k \in {j \in Indices(odds) : MarketKey(odds[j]) = container[s].key}}
          reference == {fair[k].outcome :
                          k \in {j \in Indices(fair) :
                                   fair[j].market_code = BaseMarketCode(container[s].key)}}
      IN  /\ {cols[i] : i \in Indices(cols)} = quoted \cup reference
          /\ \A i, j \in Indices(cols) : i < j => StrLess(cols[i], cols[j])

\* C6 witness: a section with a column that comes only from the fair feed and
\* a column that comes only from the odds feed.
C6_Witness ==
  /\ P0Once
  /\ \E s \in Indices(container) : IsTable(container[s]) /\
       LET cols == container[s].outcomes
           odds == renderLog[1].odds
           fair == renderLog[1].fair
       IN  /\ Len(cols) >= 2
           /\ \E i \in Indices(cols) : \A k \in Indices(odds) : odds[k].outcome # cols[i]
           /\ \E i \in Indices(cols) : \A k \in Indices(fair) : fair[k].outcome # cols[i]

\* C7: the tables in the market area were all built from responses to the
\* requests of a call for the match that is selected now.
C7_NoStaleRender ==
  \A k \in Indices(container) :
    IsTable(container[k]) => calls[writers[k]].match = matchHeading

\* C8: tables are written by a call only once both of its requests have
\* completed: no call has rendered, and no table of a call is in the market
\* area, while one of its two requests is still in flight.
C8_RenderAfterBoth ==
  /\ \A c \in Indices(calls) :
       calls[c].pc = "rendered" =>
         calls[c].fair.st # "inflight" /\ calls[c].odds.st # "inflight"
  /\ \A k \in Indices(container) :
       IsTable(container[k]) =>
         /\ calls[writers[k]].fair.st # "inflight"
         /\ calls[writers[k]].odds.st # "inflight"

\* C8 witness: a call has one response in and the other in flight while the
\* market area holds tables of an earlier call, both of whose requests are done.
C8_Witness ==
  \E c, d \in Indices(calls) :
    /\ calls[c].pc = "rendered"
    /\ \E k \in Indices(container) : IsTable(container[k]) /\ writers[k] = c
    /\ calls[d].pc = "pending"
    /\ calls[d].odds.st = "ok"
    /\ calls[d].fair.st = "inflight"

HadFailure(call) ==
  call.fair.st \in {"failed", "http"} \/ call.odds.st \in {"failed", "http"}

\* C9: a loader one of whose requests failed (non-success status, non-JSON
\* body) ends with an error notice in its region.
C9_FailureShowsError ==
  [][ \A c \in Indices(calls) :
        ( /\ calls[c].pc \notin {"rendered", "failed"}
          /\ calls'[c].pc \in {"rendered", "failed"}
          /\ HadFailure(calls'[c]) ) =>
            (Len(container') = 1 /\ container'[1].kind = "error") ]_vars

\* C10: a bookmaker cell with several quotes shows the price of the last of
\* them in the feed (to two decimals when it is a number), and never the price
\* of an earlier one that differs.
C10_LastWriteWins ==
  P0Once =>
    \A s \in Indices(container) : IsTable(container[s]) =>
      \A r \in Indices(container[s].rows), i \in Indices(container[s].outcomes) :
        LET odds == renderLog[1].odds
            cell == container[s].rows[r].cells[i]
            quotes == CellQuotes(odds, container[s].key, container[s].rows[r].bookmaker,
                                 container[s].outcomes[i])
        IN  quotes # {} =>
              LET last == odds[Last(quotes)]
              IN  /\ last.price.t = "number" => cell = ToFixed2(last.price)
                  /\ \A k \in quotes :
                       (odds[k].price.t = "number" /\ odds[k].price # last.price) =>
                         cell # ToFixed2(odds[k].price)

\* C10 witness: a cell with two quotes of different prices was rendered.
C10_Witness ==
  /\ P0Once
  /\ \E s \in Indices(container) : IsTable(container[s]) /\
       \E r \in Indices(container[s].rows), i \in Indices(container[s].outcomes) :
         LET odds == renderLog[1].odds
             quotes == CellQuotes(odds, container[s].key, container[s].rows[r].bookmaker,
                                  container[s].outcomes[i])
         IN  /\ Cardinality(quotes) >= 2
             /\ \E k \in quotes : odds[k].price # odds[Last(quotes)].price
             /\ odds[Last(quotes)].price.t = "number"

\* The keys of the quotes of odds, each once.
KeysOf(odds) == {MarketKey(odds[k]) : k \in Indices(odds)}

\* C11: the sections stand in the markets container in ascending string order
\* of their keys, one per key of the feed, whatever the order of the quotes.
C11_SectionsInKeyOrder ==
  (P0Once /\ renderLog[1].odds # <<>>) =>
    /\ {container[s].key : s \in Indices(container)} = KeysOf(renderLog[1].odds)
    /\ \A s, t \in Indices(container) :
         s < t => StrLess(container[s].key, container[t].key)

\* C11 witness: two sections were rendered from a feed whose first quote has
\* the greater key.
C11_Witness ==
  /\ P0Once
  /\ Len(container) = 2
  /\ Len(renderLog[1].odds) = 2
  /\ StrLess(MarketKey(renderLog[1].odds[2]), MarketKey(renderLog[1].odds[1]))
  /\ container[1].key = MarketKey(renderLog[1].odds[2])

\* C12: a section has one row for each bookmaker that has a quote under the
\* section's key and no other row, and the rows stand in ascending string
\* order of bookmaker name, whatever the order of the quotes.
C12_BookmakerRowsSorted ==
  P0Once =>
    \A s \in Indices(container) : IsTable(container[s]) =>
      LET rows == container[s].rows
          odds == renderLog[1].odds
          quoting == {odds[k].bookmaker_name :
                        k \in {j \in Indices(odds) : MarketKey(odds[j]) = container[s].key}}
      IN  /\ {rows[r].bookmaker : r \in Indices(rows)} = quoting
          /\ Len(rows) = Cardinality(quoting)
          /\ \A r, q \in Indices(rows) :
               r < q => StrLess(rows[r].bookmaker, rows[q].bookmaker)

\* C12 witness: a section with two bookmaker rows was rendered from a feed in
\* which the bookmaker of the second row is quoted first.
C12_Witness ==
  /\ P0Once
  /\ \E s \in Indices(container) :
       /\ IsTable(container[s])
       /\ Len(container[s].rows) = 2
       /\ Len(renderLog[1].odds) = 2
       /\ renderLog[1].odds[1].bookmaker_name = container[s].rows[2].bookmaker
       /\ renderLog[1].odds[2].bookmaker_name = container[s].rows[1].bookmaker

Ottelutulos == <<"O", "t", "t", "e", "l", "u", "t", "u", "l", "o", "s">>

\* A market code that has no trailing space and no "(line" in it.
PlainCode(m) ==
  /\ m # <<>>
  /\ ~IsSpace(m[Len(m)])
  /\ \A k \in Indices(m) : k + Len(LineOpen) - 1 <= Len(m) =>
       SubSeq(m, k, k + Len(LineOpen) - 1) # LineOpen

C15_BaseCodeRoundTrip ==
  P0Once =>
    \A s \in Indices(container) : IsTable(container[s]) =>
      \A k \in Indices(renderLog[1].odds) :
        LET q == renderLog[1].odds[k]
        IN  MarketKey(q) = container[s].key =>
              BaseMarketCode(container[s].key) = q.market_code

\* C16: when each loadMatch call was made with the responses of all earlier
\* calls in, then once the last call has rendered the markets container holds
\* what renderMarkets builds from the last call's two feeds on an empty
\* container, all of it written by the last call.
C16_RebuiltFromScratch ==
  ( /\ variant = "part000"
    /\ calls # <<>>
    /\ \A c \in Indices(calls) : calls[c].sequential
    /\ calls[Len(calls)].pc = "rendered" ) =>
      /\ Len(renderLog) = 1
      /\ renderLog[1].call = Len(calls)
      /\ container = RenderMarkets(<<>>, renderLog[1].fair, renderLog[1].odds)
      /\ \A k \in Indices(writers) : writers[k] = Len(calls)

\* C16 witness: a second call, for another match, was made after the first had
\* rendered or had put up the error message, and has rendered sections.
C16_Witness ==
  /\ variant = "part000"
  /\ Len(calls) = 2
  /\ calls[1].pc \in {"rendered", "failed"}
  /\ calls[2].sequential
  /\ calls[2].pc = "rendered"
  /\ calls[1].match # calls[2].match
  /\ \E k \in Indices(container) : IsTable(container[k])

\* Position of x in s (0 when it is not there).
IndexIn(s, x) == IF InSeq(s, x) THEN CHOOSE k \in Indices(s) : s[k] = x ELSE 0

\* C17: the columns of the h2h table are the outcomes of the h2h quotes, each
\* once (an outcome of the fair feed alone is no column): first those of home,
\* draw, away that are quoted, in that order, then the others in the order in
\* which the odds feed first quotes them.
C17_H2hColumnOrder ==
  (variant = "appV2" /\ Len(renderLog) = 1) =>
    \A c \in Indices(container) : container[c].kind = "h2h" =>
      LET cols == container[c].outcomes
          odds == renderLog[1].odds
          quotes == {k \in Indices(odds) : odds[k].market_code = h2h}
          quoted == {odds[k].outcome : k \in quotes}
          First(o) == CHOOSE k \in quotes :
                        odds[k].outcome = o /\ \A j \in quotes : odds[j].outcome = o => k <= j
          Preferred(o) == o \in {home, draw, away}
      IN  /\ {cols[i] : i \in Indices(cols)} = quoted
          /\ Len(cols) = Cardinality(quoted)
          /\ \A i, j \in Indices(cols) : i < j =>
               /\ Preferred(cols[j]) => Preferred(cols[i])
               /\ Preferred(cols[j]) =>
                    IndexIn(<<home, draw, away>>, cols[i]) < IndexIn(<<home, draw, away>>, cols[j])
               /\ ~Preferred(cols[i]) => First(cols[i]) < First(cols[j])

\* C17 witness: a feed that quotes tie, no, home in this order gave the columns
\* home, tie, no, while the fair feed has an entry for draw.
C17_Witness ==
  /\ variant = "appV2"
  /\ Len(renderLog) = 1
  /\ \E c \in Indices(container) :
       /\ container[c].kind = "h2h"
       /\ container[c].outcomes = <<home, tie, no>>
  /\ renderLog[1].odds[1].outcome = tie
  /\ \E k \in Indices(renderLog[1].fair) : renderLog[1].fair[k].outcome = draw

\* The call made last has run to its end.
LastEnded == calls # <<>> /\ calls[Len(calls)].pc \in {"rendered", "failed"}

\* The odds container shows market tables, a 'no odds' notice or an error.
ShowsResult ==
  \/ container # <<>> /\ \A k \in Indices(container) : IsTable(container[k])
  \/ Len(container) = 1 /\ container[1].kind \in {"notice", "error"}

\* The placeholder of the call made last is up and that call is still running.
LoadingShown ==
  /\ IsApp
  /\ calls # <<>>
  /\ calls[Len(calls)].pc \notin {"rendered", "failed"}
  /\ container = <<Loading>>

\* The call made last has ended and the placeholder is gone.
LoadingResolved == LastEnded /\ container # <<Loading>>

====
